---- MODULE Spec2Model ----
(***************************************************************************)
(* Model of "Finalized Prototype/debug_imports.py": a diagnostic script    *)
(* that probes the imports of torch and diffusers and prints one line per  *)
(* probe.  The script is a straight line of four try/except blocks; the    *)
(* outcomes of the imports, attribute reads and calls it makes are the     *)
(* environment, drawn when a probe runs and remembered in env, so that a   *)
(* second invocation of the script meets the same environment.             *)
(*                                                                         *)
(* A printed line is a record: mark is "ok" for the check mark, "fail"     *)
(* for the cross, "" for a line without a mark.                            *)
(* Attribute names are sequences of code points, so that substring search  *)
(* and lexicographic order are computed as Python computes them.           *)
(***************************************************************************)
EXTENDS Integers, Sequences, FiniteSets

VARIABLES pc, i, out, seg, att, status, env, turn, twice, hostile

vars == <<pc, i, out, seg, att, status, env, turn, twice, hostile>>

(* Bound: the number of attribute names the diffusers module exposes. *)
MaxAttrs == 3

(* The script is invoked once (process 1) or twice (processes 1 and 2). *)
Procs == {1, 2}

Other(p) == 3 - p

(***************************************************************************)
(* The environment's values                                                *)
(***************************************************************************)

(* Candidate attribute names of the diffusers module: "AutoPipeline",     *)
(* "Video", "VideoUtil", "_PipelineA", "pipelines".                        *)
NamePool ==
    { <<65, 117, 116, 111, 80, 105, 112, 101, 108, 105, 110, 101>>,
      <<86, 105, 100, 101, 111>>,
      <<86, 105, 100, 101, 111, 85, 116, 105, 108>>,
      <<95, 80, 105, 112, 101, 108, 105, 110, 101, 65>>,
      <<112, 105, 112, 101, 108, 105, 110, 101, 115>> }

AttrSets == { S \in SUBSET NamePool : Cardinality(S) <= MaxAttrs }

TorchVersions == { "2.1.0" }

DiffusersVersions == { "0.25.0" }

NoExc == [kind |-> "none", msg |-> <<>>]

(* An exception object: its class and the text str(e) yields, a sequence *)
(* of string pieces.                                                      *)
Exc(kind, msg) == [kind |-> kind, msg |-> msg]

ModuleNotFound(modpath) == Exc("ModuleNotFoundError", <<"No module named ">> \o modpath)

NoAttribute(name) == Exc("AttributeError", <<"module has no attribute ", name>>)

CudaInitError == Exc("RuntimeError", <<"CUDA driver initialization failed">>)

DirError == Exc("TypeError", <<"__dir__() must return a list">>)

SysExit(modpath) == Exc("SystemExit", <<"1">>)

(* What an import statement can raise: the module is absent, or, in a     *)
(* hostile environment, the module's code calls sys.exit(1).              *)
ImportExcs(modpath) ==
    { ModuleNotFound(modpath) } \cup (IF hostile THEN { SysExit(modpath) } ELSE {})

(* The exception classes that derive from Exception. *)
IsException(e) == e.kind \notin { "SystemExit", "KeyboardInterrupt", "GeneratorExit" }

(***************************************************************************)
(* Python built-ins the script calls                                       *)
(***************************************************************************)

(* s < t in Python's order on strings: by code point, a proper prefix first. *)
RECURSIVE LexLess(_, _)
LexLess(s, t) ==
    IF t = <<>> THEN FALSE
    ELSE IF s = <<>> THEN TRUE
    ELSE IF Head(s) # Head(t) THEN Head(s) < Head(t)
    ELSE LexLess(Tail(s), Tail(t))

(* pat in name *)
Contains(name, pat) ==
    \E k \in 0 .. (Len(name) - Len(pat)) : SubSeq(name, k + 1, k + Len(pat)) = pat

RECURSIVE Insert(_, _)
Insert(x, s) ==
    IF s = <<>> THEN <<x>>
    ELSE IF LexLess(x, Head(s)) THEN <<x>> \o s
    ELSE <<Head(s)>> \o Insert(x, Tail(s))

RECURSIVE InsertionSort(_)
InsertionSort(s) == IF s = <<>> THEN <<>> ELSE Insert(Head(s), InsertionSort(Tail(s)))

Reverse(s) == [k \in 1 .. Len(s) |-> s[Len(s) + 1 - k]]

(* Iteration in hash order, which changes with each process's hash seed. *)
HashOrder(s) == IF turn = 1 THEN InsertionSort(s) ELSE Reverse(InsertionSort(s))

(* sorted(available, reverse=True) *)
SortedDescending(s) == Reverse(InsertionSort(s))

(* sorted(available) *)
Sorted(s) == InsertionSort(s)

RECURSIVE SeqOf(_)
SeqOf(S) ==
    IF S = {} THEN <<>>
    ELSE LET x == CHOOSE y \in S : TRUE IN <<x>> \o SeqOf(S \ {x})

(* dir(module): the module's attribute names, as a sorted list. *)
Dir(attrs) == InsertionSort(SeqOf(attrs))

Video == <<86, 105, 100, 101, 111>>

Pipeline == <<80, 105, 112, 101, 108, 105, 110, 101>>

(* A filter that also drops the names that begin with an underscore. *)
KeepPublic(attr) ==
    (Contains(attr, Video) \/ Contains(attr, Pipeline)) /\ Head(attr) # 95

(* 'Video' in attr or 'Pipeline' in attr *)
Keep(attr) == Contains(attr, Video) \/ Contains(attr, Pipeline)

(* [attr for attr in dir(diffusers) if 'Video' in attr or 'Pipeline' in attr] *)
Available(attrs) == SelectSeq(Dir(attrs), Keep)

(***************************************************************************)
(* The script's constants and formatted lines                              *)
(***************************************************************************)

(* The list with its last entry left out. *)
imports_without_last ==
    << <<"diffusers", "DiffusionPipeline">>,
       <<"diffusers", "StableDiffusionXLImg2ImgPipeline">>,
       <<"diffusers", "StableVideoDiffusionPipeline">>,
       <<"diffusers", "utils", "load_image">> >>

imports_to_test ==
    << <<"diffusers", "DiffusionPipeline">>,
       <<"diffusers", "StableDiffusionXLImg2ImgPipeline">>,
       <<"diffusers", "StableVideoDiffusionPipeline">>,
       <<"diffusers", "utils", "load_image">>,
       <<"diffusers", "utils", "export_to_video">> >>

(* import_path.rsplit('.', 1): the module path and the last component. *)
RSplit(path) == <<SubSeq(path, 1, Len(path) - 1), path[Len(path)]>>

(* str(True), str(False) *)
StrBool(b) == IF b THEN "True" ELSE "False"

(* A printed line: its mark, its text as string pieces, and the attribute *)
(* name it ends with, if any.                                             *)
Line(mark, text, name) == [mark |-> mark, text |-> text, name |-> name]

Banner == Line("", <<"=== DEBUGGING DIFFUSERS IMPORT ===">>, <<>>)

TorchVersionLine(v) == Line("ok", <<"PyTorch: ", v>>, <<>>)

CudaLine(b) == Line("ok", <<"CUDA available: ", StrBool(b)>>, <<>>)

TorchFailLine(e) == Line("fail", <<"PyTorch import failed: ">> \o e.msg, <<>>)

DiffusersVersionLine(v) == Line("ok", <<"Diffusers: ", v>>, <<>>)

DiffusersFailLine(e) == Line("fail", <<"Diffusers import failed: ">> \o e.msg, <<>>)

SymbolOkLine(path) == Line("ok", path, <<>>)

SymbolFailLine(path, e) == Line("fail", path \o <<": ">> \o e.msg, <<>>)

(* print(f"\nAvailable in diffusers module:") writes an empty line first. *)
HeaderLines ==
    << Line("", <<>>, <<>>), Line("", <<"Available in diffusers module:">>, <<>>) >>

AttrLine(attr) == Line("", <<"  - ">>, attr)

(* Step D's failure line carries no mark. *)
ContentsFailLine(e) == Line("", <<"Error checking diffusers contents: ">> \o e.msg, <<>>)

AttrLines(names) == [k \in 1 .. Len(names) |-> AttrLine(names[k])]

(***************************************************************************)
(* The outcomes the environment can give each probe                        *)
(***************************************************************************)

AOutcome(stage, e, v, b) == [stage |-> stage, exc |-> e, version |-> v, cuda |-> b]

(* Step A: import torch, torch.__version__, torch.cuda.is_available(). *)
AOutcomes ==
    { AOutcome("import", e, "", FALSE) : e \in ImportExcs(<<"torch">>) }
    \cup { AOutcome("version", NoAttribute("__version__"), "", FALSE) }
    \cup { AOutcome("cuda", CudaInitError, v, FALSE) : v \in TorchVersions }
    \cup { AOutcome("ok", NoExc, v, b) : v \in TorchVersions, b \in BOOLEAN }

BOutcome(stage, e, v) == [stage |-> stage, exc |-> e, version |-> v]

(* Step B: import diffusers, diffusers.__version__. *)
BOutcomes ==
    { BOutcome("import", e, "") : e \in ImportExcs(<<"diffusers">>) }
    \cup { BOutcome("version", NoAttribute("__version__"), "") }
    \cup { BOutcome("ok", NoExc, v) : v \in DiffusersVersions }

COutcome(stage, e) == [stage |-> stage, exc |-> e]

(* Step C, one path: __import__(module_path, ...), getattr(module, class_name). *)
COutcomes(path) ==
    { COutcome("import", e) : e \in ImportExcs(RSplit(path)[1]) }
    \cup { COutcome("getattr", NoAttribute(RSplit(path)[2])) }
    \cup { COutcome("ok", NoExc) }

DOutcome(stage, e, attrs) == [stage |-> stage, exc |-> e, attrs |-> attrs]

(* Step D: import diffusers, dir(diffusers). *)
DOutcomes ==
    { DOutcome("import", e, {}) : e \in ImportExcs(<<"diffusers">>) }
    \cup { DOutcome("dir", DirError, {}) }
    \cup { DOutcome("ok", NoExc, S) : S \in AttrSets }

(* The environment is the same for every invocation: a probe that an      *)
(* earlier invocation made has the outcome it had then.                   *)
Same(known, k, o) == Len(known) >= k => o = known[k]

Remember(known, k, o) == IF Len(known) >= k THEN known ELSE Append(known, o)

(***************************************************************************)
(* The try blocks: the lines a block prints before it ends or raises, and  *)
(* the exception it raises, if any.                                        *)
(***************************************************************************)

Try(printed, e) == [printed |-> printed, exc |-> e]

(* A block that reads the version and the accelerator flag before it      *)
(* prints either.                                                          *)
TryAReadFirst(o) ==
    CASE o.stage = "import"  -> Try(<<>>, o.exc)
      [] o.stage = "version" -> Try(<<>>, o.exc)
      [] o.stage = "cuda"    -> Try(<<>>, o.exc)
      [] o.stage = "ok"      -> Try(<<TorchVersionLine(o.version), CudaLine(o.cuda)>>, NoExc)

TryA(o) ==
    CASE o.stage = "import"  -> Try(<<>>, o.exc)
      [] o.stage = "version" -> Try(<<>>, o.exc)
      [] o.stage = "cuda"    -> Try(<<TorchVersionLine(o.version)>>, o.exc)
      [] o.stage = "ok"      -> Try(<<TorchVersionLine(o.version), CudaLine(o.cuda)>>, NoExc)

TryB(o) ==
    CASE o.stage = "import"  -> Try(<<>>, o.exc)
      [] o.stage = "version" -> Try(<<>>, o.exc)
      [] o.stage = "ok"      -> Try(<<DiffusersVersionLine(o.version)>>, NoExc)

(* A block that prints the success line before it fetches the attribute. *)
TryCPrintFirst(path, o) ==
    CASE o.stage = "import"  -> Try(<<>>, o.exc)
      [] o.stage = "getattr" -> Try(<<SymbolOkLine(path)>>, o.exc)
      [] o.stage = "ok"      -> Try(<<SymbolOkLine(path)>>, NoExc)

TryC(path, o) ==
    CASE o.stage = "import"  -> Try(<<>>, o.exc)
      [] o.stage = "getattr" -> Try(<<>>, o.exc)
      [] o.stage = "ok"      -> Try(<<SymbolOkLine(path)>>, NoExc)

(* A block without its own import: it uses the name Step B bound, and    *)
(* raises NameError when Step B's import failed.                          *)
TryDReusesB(o) ==
    IF env.B[1].stage = "import"
    THEN Try(<<>>, Exc("NameError", <<"name 'diffusers' is not defined">>))
    ELSE CASE o.stage = "import"  -> Try(<<>>, o.exc)
           [] o.stage = "dir"     -> Try(HeaderLines, o.exc)
           [] o.stage = "ok"      ->
                 Try(HeaderLines \o AttrLines(Sorted(Available(o.attrs))), NoExc)

TryD(o) ==
    CASE o.stage = "import"  -> Try(<<>>, o.exc)
      [] o.stage = "dir"     -> Try(HeaderLines, o.exc)
      [] o.stage = "ok"      ->
            Try(HeaderLines \o AttrLines(Sorted(Available(o.attrs))), NoExc)

(* A handler that catches attribute errors only. *)
CatchesAttributeError(e) == e.kind = "AttributeError"

(* A handler that catches import errors only. *)
CatchesImportError(e) == e.kind \in { "ImportError", "ModuleNotFoundError" }

(* except Exception as e *)
Catches(e) == IsException(e)

(***************************************************************************)
(* The script                                                              *)
(***************************************************************************)

Running(p) == turn = p /\ status[p] = "running"

(* The invocations take their steps in turn. *)
NextTurn(p) == IF twice /\ status[Other(p)] = "running" THEN Other(p) ELSE p

Emit(p, step, lines) ==
    /\ out' = [out EXCEPT ![p] = @ \o lines]
    /\ seg' = [seg EXCEPT ![p] = @ \o [k \in 1 .. Len(lines) |-> step]]

(* The end of a try/except block: the lines of the block, then the        *)
(* handler's line (fail) when the handler catches what the block raised;  *)
(* an exception no handler catches ends the process with a traceback.     *)
EndTry(p, step, try, fail, nextpc) ==
    IF try.exc = NoExc
    THEN /\ Emit(p, step, try.printed)
         /\ pc' = [pc EXCEPT ![p] = nextpc]
         /\ status' = [status EXCEPT ![p] = IF nextpc = "done" THEN "exit0" ELSE @]
    ELSE IF Catches(try.exc)
    THEN /\ Emit(p, step, Append(try.printed, fail))
         /\ pc' = [pc EXCEPT ![p] = nextpc]
         /\ status' = [status EXCEPT ![p] = IF nextpc = "done" THEN "exit0" ELSE @]
    ELSE /\ Emit(p, step, try.printed)
         /\ pc' = [pc EXCEPT ![p] = "aborted"]
         /\ status' = [status EXCEPT ![p] = "exit1"]

(* The record of a probe: the step, the path probed, the module the import *)
(* machinery is asked for, and the stage and exception the probe ended at. *)
Load(p, step, target, modpath, o) ==
    att' = [att EXCEPT ![p] = Append(@, [step |-> step, target |-> target,
                                         module |-> modpath, stage |-> o.stage,
                                         exc |-> o.exc])]

Start(p) ==
    /\ Running(p)
    /\ pc[p] = "start"
    /\ Emit(p, "banner", <<Banner>>)
    /\ pc' = [pc EXCEPT ![p] = "A"]
    /\ turn' = NextTurn(p)
    /\ UNCHANGED <<i, att, status, env, twice, hostile>>

StepA(p) ==
    /\ Running(p)
    /\ pc[p] = "A"
    /\ \E o \in AOutcomes :
        /\ Same(env.A, 1, o)
        /\ env' = [env EXCEPT !.A = Remember(@, 1, o)]
        /\ EndTry(p, "A", TryA(o), TorchFailLine(TryA(o).exc), "B")
        /\ Load(p, "A", <<"torch">>, <<"torch">>, o)
    /\ turn' = NextTurn(p)
    /\ UNCHANGED <<i, twice, hostile>>

StepB(p) ==
    /\ Running(p)
    /\ pc[p] = "B"
    /\ \E o \in BOutcomes :
        /\ Same(env.B, 1, o)
        /\ env' = [env EXCEPT !.B = Remember(@, 1, o)]
        /\ EndTry(p, "B", TryB(o), DiffusersFailLine(TryB(o).exc), "C")
        /\ Load(p, "B", <<"diffusers">>, <<"diffusers">>, o)
    /\ turn' = NextTurn(p)
    /\ UNCHANGED <<i, twice, hostile>>

StepC(p) ==
    /\ Running(p)
    /\ pc[p] = "C"
    /\ LET path == imports_to_test[i[p]]
       IN  \E o \in COutcomes(path) :
                /\ Same(env.C, i[p], o)
                /\ env' = [env EXCEPT !.C = Remember(@, i[p], o)]
                /\ EndTry(p, "C", TryC(path, o), SymbolFailLine(path, TryC(path, o).exc),
                          IF i[p] < Len(imports_to_test) THEN "C" ELSE "D")
                /\ Load(p, "C", path, RSplit(path)[1], o)
    /\ i' = [i EXCEPT ![p] = @ + 1]
    /\ turn' = NextTurn(p)
    /\ UNCHANGED <<twice, hostile>>

StepD(p) ==
    /\ Running(p)
    /\ pc[p] = "D"
    /\ \E o \in DOutcomes :
        /\ Same(env.D, 1, o)
        /\ env' = [env EXCEPT !.D = Remember(@, 1, o)]
        /\ EndTry(p, "D", TryD(o), ContentsFailLine(TryD(o).exc), "done")
        /\ Load(p, "D", <<"diffusers">>, <<"diffusers">>, o)
    /\ turn' = NextTurn(p)
    /\ UNCHANGED <<i, twice, hostile>>

InitWith(two, sys) ==
    /\ pc = [p \in Procs |-> "start"]
    /\ i = [p \in Procs |-> 1]
    /\ out = [p \in Procs |-> <<>>]
    /\ seg = [p \in Procs |-> <<>>]
    /\ att = [p \in Procs |-> <<>>]
    /\ status = [p \in Procs |-> IF p = 1 \/ two THEN "running" ELSE "none"]
    /\ env = [A |-> <<>>, B |-> <<>>, C |-> <<>>, D |-> <<>>]
    /\ turn = 1
    /\ twice = two
    /\ hostile = sys

(* One invocation, in an environment whose failures derive from Exception. *)
Init == InitWith(FALSE, FALSE)

(* Two invocations in the same environment. *)
InitTwice == InitWith(TRUE, FALSE)

(* One invocation, in an environment whose imports may also exit. *)
InitSys == InitWith(FALSE, TRUE)

Next ==
    \/ \E p \in Procs : Start(p)
    \/ \E p \in Procs : StepA(p)
    \/ \E p \in Procs : StepB(p)
    \/ \E p \in Procs : StepC(p)
    \/ \E p \in Procs : StepD(p)

Spec == Init /\ [][Next]_vars

SpecTwice == InitTwice /\ [][Next]_vars

SpecSys == InitSys /\ [][Next]_vars

(***************************************************************************)
(* Reading a run                                                           *)
(***************************************************************************)

IsPrefix(s, t) == Len(s) <= Len(t) /\ SubSeq(t, 1, Len(s)) = s

IsSuffix(s, t) == Len(s) <= Len(t) /\ SubSeq(t, Len(t) - Len(s) + 1, Len(t)) = s

RECURSIVE Pick(_, _, _)
Pick(lines, tags, s) ==
    IF lines = <<>> THEN <<>>
    ELSE (IF Head(tags) = s THEN <<Head(lines)>> ELSE <<>>)
         \o Pick(Tail(lines), Tail(tags), s)

(* The lines process p printed in step s, in order. *)
StepLines(p, s) == Pick(out[p], seg[p], s)

(* The probes process p made in step s, in order. *)
Probes(p, s) == LET Test(a) == a.step = s IN SelectSeq(att[p], Test)

Raised(a) == a.exc # NoExc

(* A failure line: a line with the cross, or Step D's failure line. *)
IsFailLine(l) ==
    l.mark = "fail" \/ IsPrefix(<<"Error checking diffusers contents: ">>, l.text)

FailLines(lines) == SelectSeq(lines, IsFailLine)

OkLines(lines) == LET Test(l) == l.mark = "ok" IN SelectSeq(lines, Test)

Ended(p) == status[p] \in { "exit0", "exit1" }

(***************************************************************************)
(* C1                                                                      *)
(***************************************************************************)

NeitherInstalled(p) ==
    \A k \in 1 .. Len(att[p]) :
        att[p][k].stage = "import" /\ att[p][k].exc = ModuleNotFound(att[p][k].module)

(* The failure lines of a run with neither library installed: Step A,    *)
(* Step B, the five paths in list order, Step D.                           *)
AbsentFailures ==
    << TorchFailLine(ModuleNotFound(<<"torch">>)),
       DiffusersFailLine(ModuleNotFound(<<"diffusers">>)) >>
    \o [k \in 1 .. 5 |->
          SymbolFailLine(imports_to_test[k], ModuleNotFound(RSplit(imports_to_test[k])[1]))]
    \o << ContentsFailLine(ModuleNotFound(<<"diffusers">>)) >>

(* C2, as stated: with neither library installed the complete output of a *)
(* run is exactly nine lines, and these are, in order, the failure lines   *)
(* of Step A, Step B, the five paths and Step D; the exit status is 0.     *)
C2_NineFailureLines ==
    \A p \in Procs :
        (Ended(p) /\ NeitherInstalled(p)) =>
            /\ status[p] = "exit0"
            /\ Len(out[p]) = 9
            /\ \A n \in 1 .. Len(out[p]) :
                  IsFailLine(out[p][n]) /\ seg[p][n] \in { "A", "B", "C", "D" }
            /\ IsPrefix(<<"A", "B", "C", "C", "C", "C", "C">>, seg[p])

(* C2, amended: with neither library installed the complete output of a   *)
(* run is exactly nine lines: the banner line, then the failure lines of   *)
(* Step A, Step B, the five paths in list order and Step D (eight failure  *)
(* lines); the exit status is 0.                                           *)
C2_BannerThenFailureLines ==
    \A p \in Procs :
        (Ended(p) /\ NeitherInstalled(p)) =>
            /\ status[p] = "exit0"
            /\ Len(out[p]) = 9
            /\ out[p] = <<Banner>> \o AbsentFailures
            /\ seg[p] = <<"banner", "A", "B", "C", "C", "C", "C", "C", "D">>

(* C2 witness: a run with neither library installed has ended. *)
C2_Witness == Ended(1) /\ NeitherInstalled(1)

(***************************************************************************)
(* C3                                                                      *)
(***************************************************************************)

TorchAbsent(p) ==
    /\ Probes(p, "A") # <<>>
    /\ Probes(p, "A")[1].stage = "import"
    /\ Raised(Probes(p, "A")[1])

(* C3: when import torch raises, Step A prints exactly one failure line    *)
(* and no success line, and the run goes on to Step B, whose import of     *)
(* diffusers is attempted.                                                 *)
C3_TorchAbsentOneLine ==
    \A p \in Procs :
        TorchAbsent(p) =>
            /\ StepLines(p, "A") = <<TorchFailLine(Probes(p, "A")[1].exc)>>
            /\ OkLines(StepLines(p, "A")) = <<>>
            /\ status[p] # "exit1"
            /\ \/ pc[p] = "B" /\ status[p] = "running" /\ (turn = p => ENABLED StepB(p))
               \/ /\ Len(att[p]) >= 2
                  /\ att[p][2].step = "B"
                  /\ att[p][2].module = <<"diffusers">>

(* C3 witness: torch was absent and Step B has imported diffusers. *)
C3_Witness ==
    /\ TorchAbsent(1)
    /\ Probes(1, "B") # <<>>
    /\ Probes(1, "B")[1].stage = "ok"

(***************************************************************************)
(* C4                                                                      *)
(***************************************************************************)

Targets(probes) == [k \in 1 .. Len(probes) |-> probes[k].target]

(* C4: Step C attempts the five paths once each, in list order; each       *)
(* attempt prints exactly one line, which names its path; an attempt that  *)
(* fails does not stop the later ones, so that a run that has left Step C  *)
(* has made five attempts and printed five lines there.                    *)
C4_FiveAttemptsFiveLines ==
    \A p \in Procs :
        LET probes == Probes(p, "C")
            lines  == StepLines(p, "C")
        IN  /\ Len(imports_to_test) = 5
            /\ IsPrefix(Targets(probes), imports_to_test)
            /\ Len(lines) = Len(probes)
            /\ \A k \in 1 .. Len(lines) : IsPrefix(imports_to_test[k], lines[k].text)
            /\ pc[p] = "C" => Len(probes) = i[p] - 1 /\ i[p] <= 5
            /\ pc[p] \in { "D", "done" } => Len(probes) = 5
            /\ pc[p] # "aborted"
            /\ (pc[p] = "C" /\ status[p] = "running" /\ turn = p) => ENABLED StepC(p)

(* C4 witness: the run left Step C after the first attempt failed at the   *)
(* import, the third at the attribute, and the last succeeded.             *)
C4_Witness ==
    /\ pc[1] = "D"
    /\ Probes(1, "C")[1].stage = "import"
    /\ Probes(1, "C")[3].stage = "getattr"
    /\ Probes(1, "C")[5].stage = "ok"

(***************************************************************************)
(* C5                                                                      *)
(***************************************************************************)

(* The attribute names Step D printed, in the order printed. *)
PrintedNames(p) ==
    LET Named(l) == l.name # <<>>
        lines == SelectSeq(StepLines(p, "D"), Named)
    IN  [k \in 1 .. Len(lines) |-> lines[k].name]

(* C5: the names Step D prints are in strictly increasing lexicographic    *)
(* order: sorted, and no name twice.                                       *)
C5_SortedNoDuplicates ==
    \A p \in Procs :
        LET names == PrintedNames(p)
        IN  \A j, k \in 1 .. Len(names) : j < k => LexLess(names[j], names[k])

(* C5 witness: Step D printed three names. *)
C5_Witness == Len(PrintedNames(1)) >= 3

(***************************************************************************)
(* C6                                                                      *)
(***************************************************************************)

C7_StepDIndependent ==
    \A p \in Procs :
        LET d == Probes(p, "D")
        IN  /\ (pc[p] = "D" /\ status[p] = "running" /\ turn = p) => ENABLED StepD(p)
            /\ pc[p] = "done" <=> Len(d) = 1
            /\ Len(d) = 1 =>
                  /\ d[1].module = <<"diffusers">>
                  /\ d[1].stage = "import" =>
                        StepLines(p, "D") = <<ContentsFailLine(d[1].exc)>>
                  /\ d[1].stage = "dir" =>
                        StepLines(p, "D") = HeaderLines \o <<ContentsFailLine(d[1].exc)>>
                  /\ d[1].stage = "ok" =>
                        /\ IsPrefix(HeaderLines, StepLines(p, "D"))
                        /\ Len(StepLines(p, "D")) = 2 + Len(PrintedNames(p))
                        /\ FailLines(StepLines(p, "D")) = <<>>
                        /\ { PrintedNames(p)[k] : k \in 1 .. Len(PrintedNames(p)) }
                              = { n \in env.D[1].attrs :
                                    Contains(n, Video) \/ Contains(n, Pipeline) }

(* C7 witness: Step B's import failed, and Step D's import succeeded and   *)
(* printed a name.                                                         *)
C7_Witness ==
    /\ pc[1] = "done"
    /\ Probes(1, "B")[1].stage = "import"
    /\ Probes(1, "D")[1].stage = "ok"
    /\ PrintedNames(1) # <<>>

(***************************************************************************)
(* C8                                                                      *)
(***************************************************************************)

(* C8, as stated: Step A prints either two success lines (version, then    *)
(* accelerator flag) or, on any failure, exactly one failure line; never a *)
(* success line with a failure line; Step B runs next.                     *)
C8_TwoOkOrOneFail ==
    \A p \in Procs :
        LET a == Probes(p, "A")
            lines == StepLines(p, "A")
        IN  Len(a) = 1 =>
              /\ \/ /\ ~ Raised(a[1])
                    /\ Len(lines) = 2
                    /\ FailLines(lines) = <<>>
                 \/ /\ Raised(a[1])
                    /\ lines = <<TorchFailLine(a[1].exc)>>
              /\ OkLines(lines) = <<>> \/ FailLines(lines) = <<>>

(* C8, amended: Step A prints two success lines (version, then             *)
(* accelerator flag) when nothing fails; exactly one failure line when the *)
(* import or the version read fails; and the version success line followed *)
(* by one failure line when the accelerator query fails.  In every case    *)
(* Step B runs next.                                                       *)
C8_StepALines ==
    \A p \in Procs :
        LET a == Probes(p, "A")
            lines == StepLines(p, "A")
        IN  /\ Len(a) = 1 =>
                  /\ a[1].stage = "ok" =>
                        /\ Len(lines) = 2
                        /\ lines[1] = TorchVersionLine(env.A[1].version)
                        /\ lines[2] = CudaLine(env.A[1].cuda)
                  /\ a[1].stage \in { "import", "version" } =>
                        lines = <<TorchFailLine(a[1].exc)>>
                  /\ a[1].stage = "cuda" =>
                        lines = <<TorchVersionLine(env.A[1].version), TorchFailLine(a[1].exc)>>
                  /\ status[p] # "exit1"
                  /\ \/ pc[p] = "B" /\ status[p] = "running"
                     \/ Len(att[p]) >= 2 /\ att[p][2].step = "B"
            /\ Len(a) = 0 => lines = <<>>

(* C8 witness: the accelerator query failed and Step B has run. *)
C8_Witness ==
    /\ Probes(1, "A") # <<>>
    /\ Probes(1, "A")[1].stage = "cuda"
    /\ Probes(1, "B") # <<>>

(***************************************************************************)
(* C9                                                                      *)
(***************************************************************************)

(* C9: each path is split at its last separator into module path and       *)
(* attribute name; the attempt prints the success line if and only if the  *)
(* import of the module path and the fetch of the attribute both succeed;  *)
(* otherwise it prints one failure line that holds the path and the        *)
(* failure reason; no attempt prints both lines.                           *)
C9_SuccessIffBothStages ==
    \A p \in Procs :
        LET probes == Probes(p, "C")
            lines  == StepLines(p, "C")
        IN  /\ Len(lines) = Len(probes)
            /\ \A k \in 1 .. Len(probes) :
                  LET path == imports_to_test[k]
                  IN  /\ probes[k].module \o <<path[Len(path)]>> = path
                      /\ probes[k].module # <<>>
                      /\ lines[k] = SymbolOkLine(path) <=> probes[k].stage = "ok"
                      /\ probes[k].stage \in { "import", "getattr" } =>
                            /\ lines[k].mark = "fail"
                            /\ IsPrefix(path, lines[k].text)
                            /\ IsSuffix(probes[k].exc.msg, lines[k].text)
                      /\ probes[k].stage = "import" =>
                            probes[k].exc = ModuleNotFound(probes[k].module)
                      /\ probes[k].stage = "getattr" =>
                            probes[k].exc = NoAttribute(path[Len(path)])

(* C9 witness: of the first three attempts one succeeded, one failed at    *)
(* the import and one at the attribute.                                    *)
C9_Witness ==
    /\ Len(Probes(1, "C")) >= 3
    /\ { Probes(1, "C")[k].stage : k \in 1 .. 3 } = { "ok", "import", "getattr" }

(***************************************************************************)
(* C10                                                                     *)
(***************************************************************************)

IsPublic(name) == Head(name) # 95

NameSet(p) == { PrintedNames(p)[k] : k \in 1 .. Len(PrintedNames(p)) }

(* C10, as stated: on a successful load Step D prints, under the header,   *)
(* exactly the public attribute names that contain "Video" or "Pipeline",  *)
(* each once, and no non-public name; on failure it prints only the        *)
(* failure reason.                                                         *)
C10_PublicNamesOnly ==
    \A p \in Procs :
        LET d == Probes(p, "D")
        IN  Len(d) = 1 =>
              /\ d[1].stage = "ok" =>
                    /\ NameSet(p) = { n \in env.D[1].attrs :
                                        IsPublic(n) /\ (Contains(n, Video) \/ Contains(n, Pipeline)) }
                    /\ Cardinality(NameSet(p)) = Len(PrintedNames(p))
              /\ d[1].stage # "ok" => StepLines(p, "D") = <<ContentsFailLine(d[1].exc)>>

(* C10, amended: on a successful load and enumeration Step D prints,       *)
(* under the header, exactly the names dir() returns (those that begin     *)
(* with an underscore included) that contain "Video" or "Pipeline", each   *)
(* once, one per line; when the load fails it prints only the failure      *)
(* reason; when the enumeration fails it prints the header and then the    *)
(* failure reason.                                                         *)
C10_AllMatchingNames ==
    \A p \in Procs :
        LET d == Probes(p, "D")
            lines == StepLines(p, "D")
        IN  /\ Len(d) = 1 =>
                  /\ d[1].stage = "ok" =>
                        /\ NameSet(p) = { n \in env.D[1].attrs :
                                            Contains(n, Video) \/ Contains(n, Pipeline) }
                        /\ Cardinality(NameSet(p)) = Len(PrintedNames(p))
                        /\ Len(lines) = 2 + Len(PrintedNames(p))
                        /\ SubSeq(lines, 1, 2) = HeaderLines
                        /\ \A k \in 3 .. Len(lines) : lines[k] = AttrLine(PrintedNames(p)[k - 2])
                  /\ d[1].stage = "import" => lines = <<ContentsFailLine(d[1].exc)>>
                  /\ d[1].stage = "dir" => lines = HeaderLines \o <<ContentsFailLine(d[1].exc)>>
            /\ Len(d) = 0 => lines = <<>>

(* C10 witness: the library exposes an underscore name with "Pipeline", a  *)
(* public name with "Video" and a name with neither, and Step D printed    *)
(* two names.                                                              *)
C10_Witness ==
    /\ Probes(1, "D") # <<>>
    /\ Probes(1, "D")[1].stage = "ok"
    /\ \E n \in env.D[1].attrs : ~ IsPublic(n) /\ Contains(n, Pipeline)
    /\ \E n \in env.D[1].attrs : ~ Contains(n, Video) /\ ~ Contains(n, Pipeline)
    /\ Len(PrintedNames(1)) = 2

====
